---- MODULE Spec2Model ----
(***************************************************************************)
(* ROI average align (chainer/functions/pooling/roi_average_align_2d.py).  *)
(*                                                                         *)
(* Floating point values are modelled by exact rationals <<n, d>> in       *)
(* lowest terms with d > 0; Python ints are TLA+ integers.                 *)
(***************************************************************************)
EXTENDS Integers, Sequences, FiniteSets, TLC

(***************************************************************************)
(* Bounds of the model.                                                    *)
(***************************************************************************)
\* largest plane height / width the sampler is applied to on its own
MaxPlane == 3
\* the sampler's coordinates are drawn in steps of 1 / CoordDen
CoordDen == 4
\* largest number of ROIs in one call
MaxRois == 2
\* largest outsize entry and largest sampling_ratio entry given to __init__
MaxOut == 2
MaxRatio == 2

(***************************************************************************)
(* Exact arithmetic standing for the float arithmetic of the source.       *)
(***************************************************************************)
Abs(n) == IF n < 0 THEN -n ELSE n

RECURSIVE GCD(_, _)
GCD(a, b) == IF b = 0 THEN a ELSE GCD(b, a % b)

\* n / d in lowest terms, d # 0
Frac(n, d) ==
    IF d = 1 THEN <<n, 1>>
    ELSE IF d > 0 /\ n % d = 0 THEN <<n \div d, 1>>
    ELSE LET s == IF d < 0 THEN -1 ELSE 1
             g == GCD(Abs(n), Abs(d))
         IN  <<(s * n) \div g, (s * d) \div g>>

\* float(n) for an int n
R(n) == <<n, 1>>

RAdd(a, b) == Frac(a[1] * b[2] + b[1] * a[2], a[2] * b[2])
RSub(a, b) == Frac(a[1] * b[2] - b[1] * a[2], a[2] * b[2])
RMul(a, b) == Frac(a[1] * b[1], a[2] * b[2])
RDiv(a, b) == Frac(a[1] * b[2], a[2] * b[1])
RLt(a, b) == a[1] * b[2] < b[1] * a[2]
RLe(a, b) == a[1] * b[2] <= b[1] * a[2]
RMax(a, b) == IF RLt(a, b) THEN b ELSE a

\* int(r): truncation towards zero
RInt(a) == IF a[1] >= 0 THEN a[1] \div a[2] ELSE -((-a[1]) \div a[2])

\* numpy.ceil(r), a float
RCeil(a) == R(-((-a[1]) \div a[2]))

(***************************************************************************)
(* _get_bilinear_interp_params                                             *)
(***************************************************************************)
\* the (None,) * 8 result; callers test "y_low is None"
NoneParams ==
    [valid |-> FALSE, y_low |-> 0, x_low |-> 0, y_high |-> 0, x_high |-> 0,
     ly |-> R(0), lx |-> R(0),
     w1 |-> R(0), w2 |-> R(0), w3 |-> R(0), w4 |-> R(0)]

\* variant: the far edge of the plane is excluded (>= for >)
OutOfRange_EdgeExcluded(y, x, height, width) ==
    \/ RLt(y, R(-1))
    \/ RLe(R(height), y)
    \/ RLt(x, R(-1))
    \/ RLe(R(width), x)

\* the range test of the first line of the sampler
OutOfRange(y, x, height, width) ==
    \/ RLt(y, R(-1))
    \/ RLt(R(height), y)
    \/ RLt(x, R(-1))
    \/ RLt(R(width), x)

\* variant: a coordinate in [-1, 0) is not snapped to 0
AxisLow_NoSnap(v, extent) ==
    LET low == RInt(v)
    IN  IF low >= extent - 1
        THEN [low |-> extent - 1, high |-> extent - 1, v |-> R(extent - 1)]
        ELSE [low |-> low, high |-> low + 1, v |-> v]

\* variant: the last row / column is not folded onto itself
AxisLow_NoEdge(v, extent) ==
    LET v0  == IF RLe(v, R(0)) THEN R(0) ELSE v
        low == RInt(v0)
    IN  [low |-> low, high |-> low + 1, v |-> v0]

\* one axis of the sampler: clamp to >= 0, truncate, resolve the high corner
\* and the coordinate the fractional offset is taken from
AxisLow(v, extent) ==
    LET v0  == IF RLe(v, R(0)) THEN R(0) ELSE v
        low == RInt(v0)
    IN  IF low >= extent - 1
        THEN [low |-> extent - 1, high |-> extent - 1, v |-> R(extent - 1)]
        ELSE [low |-> low, high |-> low + 1, v |-> v0]

get_bilinear_interp_params(y, x, height, width) ==
    IF OutOfRange(y, x, height, width)
    THEN NoneParams
    ELSE LET ay == AxisLow(y, height)
             ax == AxisLow(x, width)
             ly == RSub(ay.v, R(ay.low))
             lx == RSub(ax.v, R(ax.low))
             hy == RSub(R(1), ly)
             hx == RSub(R(1), lx)
         IN  [valid |-> TRUE,
              y_low |-> ay.low, x_low |-> ax.low,
              y_high |-> ay.high, x_high |-> ax.high,
              ly |-> ly, lx |-> lx,
              w1 |-> RMul(hy, hx), w2 |-> RMul(hy, lx),
              w3 |-> RMul(ly, hx), w4 |-> RMul(ly, lx)]

\* backward's guard before the four corner writes
BackwardGuard(p) ==
    p.x_low >= 0 /\ p.x_high >= 0 /\ p.y_low >= 0 /\ p.y_high >= 0

(***************************************************************************)
(* State.                                                                  *)
(***************************************************************************)
VARIABLES
    s_pc,      \* sampler on its own: "args" before the call, "returned" after
    s_y, s_x,  \* its coordinate arguments
    s_height,  \* its plane arguments
    s_width,
    bp         \* the value it returned

samplerVars == <<s_pc, s_y, s_x, s_height, s_width, bp>>

VARIABLES
    pc,                  \* where the operator instance is in its life
    arg_outsize,         \* the arguments given to __init__
    arg_spatial_scale,
    arg_sampling_ratio,
    self_outh,           \* the attributes __init__ sets
    self_outw,
    self_spatial_scale,
    self_sampling_ratio,
    self_bottom_data_shape,  \* self._bottom_data_shape, set by forward
    bottom_data,         \* inputs[0] of forward
    bottom_rois,         \* inputs[1], a sequence of (y_min, x_min, y_max, x_max)
    bottom_roi_indices,  \* inputs[2]
    top_data,            \* forward's output tensor
    top_diff,            \* gy[0] given to backward
    bottom_diff,         \* backward's feature map gradient
    i, iy, ix,           \* loop variables of the running kernel
    output_val,          \* forward's accumulator
    ncalls,              \* sampler calls made for output element i so far
    tpos                 \* per work item of the device kernel: atomicAdds done

ctorVars == <<arg_outsize, arg_spatial_scale, arg_sampling_ratio,
              self_outh, self_outw, self_spatial_scale, self_sampling_ratio>>
inputVars == <<bottom_data, bottom_rois, bottom_roi_indices>>
loopVars == <<i, iy, ix, output_val, ncalls>>
gpuVars == <<tpos>>
kernelVars == <<pc, ctorVars, self_bottom_data_shape, inputVars,
                top_data, top_diff, bottom_diff, loopVars, gpuVars>>

VARIABLES
    calls,     \* the forward calls made on the instance: their explicit inputs
    bwd_of     \* which of them the running backward call is the gradient of

callVars == <<calls, bwd_of>>

CallsIdle == calls = <<>> /\ bwd_of = 0

VARIABLES
    p_pc,              \* ProgressBarPrinter: "ready", or the exception of
                       \* its last call
    training_length,   \* self._training_length: (length, unit)
    bar_length,        \* self._bar_length
    recent_timing,     \* self._recent_timing
    out,               \* what the last call wrote to self._out, in order
    old_entry,         \* recent_timing[0] as the last call read it
    speed_t,           \* the speeds of the last call
    speed_e,
    p_calls,           \* every call made so far: (iteration, epoch, now)
    p_failed           \* some call so far has raised

printerVars == <<p_pc, training_length, bar_length, recent_timing, out,
                 old_entry, speed_t, speed_e, p_calls, p_failed>>

\* a speed: float('inf') or a number
Inf == [inf |-> TRUE, v |-> <<0, 1>>]
Finite(r) == [inf |-> FALSE, v |-> r]

\* no printer at all
PrinterIdle ==
    /\ p_pc = "idle"
    /\ training_length = <<0, "iteration">>
    /\ bar_length = 0
    /\ recent_timing = <<>>
    /\ out = <<>>
    /\ old_entry = <<0, <<0, 1>>, 0>>
    /\ speed_t = Inf /\ speed_e = Inf
    /\ p_calls = <<>>
    /\ p_failed = FALSE

VARIABLES
    w_pc,           \* static_schedule_func: where the decorated function is
    w_func,         \* the function that was wrapped
    func_ret,       \* what that function returns when it is invoked
    delay_call,     \* the closure variables of wrap
    func_name,
    w_args,         \* the positional arguments of the running call
    schedule_func,  \* chainer.config.schedule_func: "None" or "schedule"
    schedule,       \* what append_function has put into the schedule
    instance,       \* the attributes of args[0]
    w_log,          \* the running call: invocations and appends, in order
    w_before,       \* schedule, instance and trace mode as the running call
                    \* found them
    w_ncalls        \* calls of wrapped functions made so far

scheduleVars == <<w_pc, w_func, func_ret, delay_call, func_name, w_args,
                  schedule_func, schedule, instance, w_log, w_before,
                  w_ncalls>>

\* a FunctionNode that no wrapped function has been called on
FreshInstance == [supports_static_optimizations |-> FALSE,
                  schedule_func |-> "None"]

\* no decorated function at all
ScheduleIdle ==
    /\ w_pc = "idle"
    /\ w_func = "None"
    /\ func_ret = "None"
    /\ delay_call = FALSE
    /\ func_name = "None"
    /\ w_args = <<>>
    /\ schedule_func = "None"
    /\ schedule = <<>>
    /\ instance = FreshInstance
    /\ w_log = <<>>
    /\ w_before = [schedule |-> <<>>, instance |-> FreshInstance,
                   schedule_func |-> "None"]
    /\ w_ncalls = 0

otherVars == <<callVars, printerVars, scheduleVars>>

OtherIdle == CallsIdle /\ PrinterIdle /\ ScheduleIdle

vars == <<samplerVars, kernelVars, otherVars>>

(***************************************************************************)
(* Python values: a scalar is [t, v] with t its type and v its numeric     *)
(* value; an argument is a scalar or an iterable of scalars.               *)
(***************************************************************************)
PyInt(n) == [t |-> "int", v |-> R(n)]
PyFloat(r) == [t |-> "float", v |-> r]
PyNone == [t |-> "None", v |-> R(0)]
Scalar(x) == [iter |-> FALSE, items |-> <<x>>]
Tuple(seq) == [iter |-> TRUE, items |-> seq]

\* _pair(x)
Pair(x) == IF x.iter THEN x.items ELSE <<x.items[1], x.items[1]>>

\* "isinstance(outh, int) and outh > 0"
PositiveInt(s) == s.t = "int" /\ RLt(R(0), s.v)

\* the branch "if isinstance(spatial_scale, int)" of __init__
ScaleIsInt(a) == ~a.iter /\ a.items[1].t = "int"

\* "isinstance(spatial_scale, float) and spatial_scale > 0"
ScaleIsPositiveFloat(a) ==
    ~a.iter /\ a.items[1].t = "float" /\ RLt(R(0), a.items[1].v)

\* "all((isinstance(s, int) and s >= 1) or s is None for s in sampling_ratio)"
SamplingRatioOk(seq) ==
    \A k \in 1 .. Len(seq) :
        (seq[k].t = "int" /\ RLe(R(1), seq[k].v)) \/ seq[k].t = "None"

(***************************************************************************)
(* The arguments and inputs the operator is exercised with.                *)
(***************************************************************************)
OutsizeArgs ==
    {Scalar(PyInt(0)), Scalar(PyInt(1)),
     Tuple(<<PyInt(MaxOut), PyInt(1)>>),
     Tuple(<<PyInt(1), PyInt(MaxOut)>>)}

SpatialScaleArgs ==
    {Scalar(PyInt(k)) : k \in -1 .. 1}
        \cup {Scalar(PyFloat(r)) : r \in {Frac(1, 2), R(0), Frac(-1, 2)}}
        \cup {Tuple(<<PyFloat(Frac(1, 2)), PyFloat(Frac(1, 2))>>)}

SamplingRatioArgs ==
    {Scalar(PyNone), Scalar(PyFloat(Frac(3, 2)))}
        \cup {Scalar(PyInt(0)), Scalar(PyInt(MaxRatio))}
        \cup {Tuple(<<PyNone, PyInt(MaxRatio)>>),
              Tuple(<<PyInt(1), PyInt(0)>>),
              Tuple(<<PyInt(MaxRatio)>>),
              Tuple(<<>>),
              Tuple(<<PyInt(1), PyInt(MaxRatio), PyInt(1)>>)}

\* shape of the feature maps given to forward: (batch, channel, height, width)
FeatureShape == <<2, 2, 2, 2>>
NBatch == FeatureShape[1]
Height == FeatureShape[3]
Width == FeatureShape[4]

Cells(shape) ==
    (0 .. shape[1] - 1) \X (0 .. shape[2] - 1)
        \X (0 .. shape[3] - 1) \X (0 .. shape[4] - 1)

\* feature maps with one cell set to 1
FeatureMaps ==
    {[shape |-> FeatureShape,
      val |-> [cell \in Cells(FeatureShape) |->
                  IF cell = hot THEN R(1) ELSE R(0)]] :
        hot \in Cells(FeatureShape)}

\* rows of (ROI box in pre-scale coordinates, batch index)
RoiRows ==
    << [box |-> <<R(0), R(0), R(Height), R(Width)>>, ind |-> 0],
       [box |-> <<R(Height + 1), R(Width + 1), R(Height + 2), R(Width + 2)>>,
        ind |-> NBatch - 1],
       [box |-> <<R(1), R(1), R(1), R(1)>>, ind |-> 0],
       [box |-> <<R(Height - 1), R(0), R(Height + 1), R(Width)>>,
        ind |-> 0] >>

RECURSIVE PickRows(_, _)
PickRows(S, k) ==
    IF k > Len(RoiRows) THEN <<>>
    ELSE IF k \in S THEN <<RoiRows[k]>> \o PickRows(S, k + 1)
    ELSE PickRows(S, k + 1)

\* the ROI arrays given to forward: up to MaxRois of the rows, in order
RoiInputs ==
    {PickRows(S, 1) :
        S \in {T \in SUBSET (1 .. Len(RoiRows)) : Cardinality(T) <= MaxRois}}

\* the value of an element numpy.empty has not initialised
Uninit == <<0, 0>>

OutIndex(n_rois, channels, outh, outw) ==
    (0 .. n_rois - 1) \X (0 .. channels - 1)
        \X (0 .. outh - 1) \X (0 .. outw - 1)

\* output gradients: a ramp over the flat index
GradOutputs(n_rois, channels, outh, outw) ==
    {[e \in OutIndex(n_rois, channels, outh, outw) |->
         R(1 + ((e[1] * channels + e[2]) * outh + e[3]) * outw + e[4])]}

(***************************************************************************)
(* ROIAverageAlign2D.__init__                                              *)
(***************************************************************************)
NoShape == <<0, 0, 0, 0>>
NoTensor == [e \in {} |-> R(0)]

SamplerIdle ==
    /\ s_pc = "idle"
    /\ s_y = R(0) /\ s_x = R(0)
    /\ s_height = 1 /\ s_width = 1
    /\ bp = NoneParams

KernelUnset ==
    /\ self_outh = 0 /\ self_outw = 0
    /\ self_spatial_scale = R(0)
    /\ self_sampling_ratio = <<>>
    /\ self_bottom_data_shape = NoShape
    /\ bottom_data = [shape |-> NoShape, val |-> NoTensor]
    /\ bottom_rois = <<>>
    /\ bottom_roi_indices = <<>>
    /\ top_data = NoTensor
    /\ top_diff = NoTensor
    /\ bottom_diff = NoTensor
    /\ i = 0 /\ iy = 0 /\ ix = 0
    /\ output_val = R(0)
    /\ ncalls = 0
    /\ tpos = <<>>

\* no operator instance at all
KernelIdle ==
    /\ pc = "idle"
    /\ arg_outsize = Scalar(PyNone)
    /\ arg_spatial_scale = Scalar(PyNone)
    /\ arg_sampling_ratio = Scalar(PyNone)
    /\ KernelUnset

Init ==
    /\ pc = "new"
    /\ arg_outsize \in OutsizeArgs
    /\ arg_spatial_scale \in SpatialScaleArgs
    /\ arg_sampling_ratio \in SamplingRatioArgs
    /\ KernelUnset
    /\ SamplerIdle
    /\ OtherIdle

Raise(exc) ==
    /\ pc' = exc
    /\ UNCHANGED <<ctorVars, self_bottom_data_shape, inputVars,
                   top_data, top_diff, bottom_diff, loopVars>>

Construct ==
    /\ pc = "new"
    /\ LET po == Pair(arg_outsize)
       IN  IF Len(po) # 2
           THEN Raise("ValueError")
           ELSE IF ~PositiveInt(po[1]) \/ ~PositiveInt(po[2])
           THEN Raise("TypeError")
           ELSE IF ~ScaleIsInt(arg_spatial_scale)
                   /\ ~ScaleIsPositiveFloat(arg_spatial_scale)
           THEN Raise("TypeError")
           ELSE IF ~SamplingRatioOk(Pair(arg_sampling_ratio))
           THEN Raise("TypeError")
           ELSE /\ pc' = "constructed"
                /\ self_outh' = RInt(po[1].v)
                /\ self_outw' = RInt(po[2].v)
                /\ self_spatial_scale' = arg_spatial_scale.items[1].v
                /\ self_sampling_ratio' = Pair(arg_sampling_ratio)
                /\ UNCHANGED <<arg_outsize, arg_spatial_scale,
                               arg_sampling_ratio, self_bottom_data_shape,
                               inputVars, top_data, top_diff, bottom_diff,
                               loopVars>>
    /\ UNCHANGED <<samplerVars, gpuVars, otherVars>>

(***************************************************************************)
(* The per-element arithmetic shared by forward_cpu and backward_cpu.      *)
(***************************************************************************)
\* variant: ph is not reduced modulo pooled_height
Decode_NoMod(k, pooled_width, pooled_height, channels) ==
    [pw |-> k % pooled_width,
     ph |-> RInt(RDiv(R(k), R(pooled_width))),
     c  |-> RInt(RDiv(RDiv(R(k), R(pooled_width)), R(pooled_height)))
                % channels,
     n  |-> RInt(RDiv(RDiv(RDiv(R(k), R(pooled_width)), R(pooled_height)),
                      R(channels)))]

\* the flat index decoded to (pw, ph, c, n)
Decode(k, pooled_width, pooled_height, channels) ==
    [pw |-> k % pooled_width,
     ph |-> RInt(RDiv(R(k), R(pooled_width))) % pooled_height,
     c  |-> RInt(RDiv(RDiv(R(k), R(pooled_width)), R(pooled_height)))
                % channels,
     n  |-> RInt(RDiv(RDiv(RDiv(R(k), R(pooled_width)), R(pooled_height)),
                      R(channels)))]

\* variant: the scaled extent is not clamped to at least 1.0
RoiGeometry_NoClamp(n, rois, indices, spatial_scale, sampling_ratio, pooled_height, pooled_width) ==
    LET roi_start_h == RMul(rois[n + 1][1], spatial_scale)
        roi_start_w == RMul(rois[n + 1][2], spatial_scale)
        roi_end_h   == RMul(rois[n + 1][3], spatial_scale)
        roi_end_w   == RMul(rois[n + 1][4], spatial_scale)
        roi_height  == RSub(roi_end_h, roi_start_h)
        roi_width   == RSub(roi_end_w, roi_start_w)
        bin_size_h  == RDiv(roi_height, R(pooled_height))
        bin_size_w  == RDiv(roi_width, R(pooled_width))
        roi_bin_grid_h ==
            IF sampling_ratio[1].t = "None"
            THEN RCeil(RDiv(roi_height, R(pooled_height)))
            ELSE sampling_ratio[1].v
        roi_bin_grid_w ==
            IF sampling_ratio[2].t = "None"
            THEN RCeil(RDiv(roi_width, R(pooled_width)))
            ELSE sampling_ratio[2].v
    IN  [roi_batch_ind |-> indices[n + 1],
         roi_start_h |-> roi_start_h, roi_start_w |-> roi_start_w,
         bin_size_h |-> bin_size_h, bin_size_w |-> bin_size_w,
         roi_bin_grid_h |-> roi_bin_grid_h,
         roi_bin_grid_w |-> roi_bin_grid_w,
         count |-> RMul(roi_bin_grid_h, roi_bin_grid_w)]

\* ROI n scaled, its bin size, sampling grid and count
RoiGeometry(n, rois, indices, spatial_scale, sampling_ratio, pooled_height, pooled_width) ==
    LET roi_start_h == RMul(rois[n + 1][1], spatial_scale)
        roi_start_w == RMul(rois[n + 1][2], spatial_scale)
        roi_end_h   == RMul(rois[n + 1][3], spatial_scale)
        roi_end_w   == RMul(rois[n + 1][4], spatial_scale)
        roi_height  == RMax(RSub(roi_end_h, roi_start_h), R(1))
        roi_width   == RMax(RSub(roi_end_w, roi_start_w), R(1))
        bin_size_h  == RDiv(roi_height, R(pooled_height))
        bin_size_w  == RDiv(roi_width, R(pooled_width))
        roi_bin_grid_h ==
            IF sampling_ratio[1].t = "None"
            THEN RCeil(RDiv(roi_height, R(pooled_height)))
            ELSE sampling_ratio[1].v
        roi_bin_grid_w ==
            IF sampling_ratio[2].t = "None"
            THEN RCeil(RDiv(roi_width, R(pooled_width)))
            ELSE sampling_ratio[2].v
    IN  [roi_batch_ind |-> indices[n + 1],
         roi_start_h |-> roi_start_h, roi_start_w |-> roi_start_w,
         bin_size_h |-> bin_size_h, bin_size_w |-> bin_size_w,
         roi_bin_grid_h |-> roi_bin_grid_h,
         roi_bin_grid_w |-> roi_bin_grid_w,
         count |-> RMul(roi_bin_grid_h, roi_bin_grid_w)]

ForwardGeom(n) ==
    RoiGeometry(n, bottom_rois, bottom_roi_indices, self_spatial_scale,
                self_sampling_ratio, self_outh, self_outw)

BackwardGeom(n) ==
    RoiGeometry(n, bottom_rois, bottom_roi_indices, self_spatial_scale,
                self_sampling_ratio, self_outh, self_outw)

\* y = roi_start_h + ph * bin_size_h + (iy + .5) * bin_size_h / roi_bin_grid_h
SampleCoord(roi_start, p, bin_size, k, grid) ==
    RAdd(RAdd(roi_start, RMul(R(p), bin_size)),
         RDiv(RMul(RAdd(R(k), Frac(1, 2)), bin_size), grid))

\* w1 * v1 + w2 * v2 + w3 * v3 + w4 * v4
Interpolate(p, data, b, c) ==
    RAdd(RAdd(RAdd(RMul(p.w1, data[<<b, c, p.y_low, p.x_low>>]),
                   RMul(p.w2, data[<<b, c, p.y_low, p.x_high>>])),
              RMul(p.w3, data[<<b, c, p.y_high, p.x_low>>])),
         RMul(p.w4, data[<<b, c, p.y_high, p.x_high>>]))

\* "ix += 1", the end of the inner while, "iy += 1", the end of the outer one
LoopAdvance(g) ==
    LET rowEnd == ~RLt(R(ix + 1), g.roi_bin_grid_w)
        iy1 == IF rowEnd THEN iy + 1 ELSE iy
    IN  [iy |-> iy1,
         ix |-> IF rowEnd THEN 0 ELSE ix + 1,
         elemEnd |-> rowEnd /\ ~RLt(R(iy1), g.roi_bin_grid_h)]

\* one more call of the sampler for the current output element
CountCall(g) ==
    IF ncalls <= RInt(g.count) THEN ncalls + 1 ELSE ncalls

(***************************************************************************)
(* ROIAverageAlign2D.forward_cpu                                           *)
(***************************************************************************)
ForwardCall ==
    /\ pc = "constructed"
    /\ \E data \in FeatureMaps, rows \in RoiInputs :
        LET size == Len(rows) * data.shape[2] * self_outh * self_outw
        IN  /\ bottom_data' = data
            /\ bottom_rois' = [k \in 1 .. Len(rows) |-> rows[k].box]
            /\ bottom_roi_indices' = [k \in 1 .. Len(rows) |-> rows[k].ind]
            /\ self_bottom_data_shape' = data.shape
            /\ top_data' = [e \in OutIndex(Len(rows), data.shape[2],
                                           self_outh, self_outw) |-> Uninit]
            /\ pc' = IF size = 0 THEN "fwd_done" ELSE "forward"
    /\ i' = 0 /\ iy' = 0 /\ ix' = 0
    /\ output_val' = R(0)
    /\ ncalls' = 0
    /\ UNCHANGED <<ctorVars, top_diff, bottom_diff>>
    /\ UNCHANGED <<samplerVars, gpuVars, otherVars>>

\* one pass through the body of the inner while loop; each local of the
\* body is bound once, as a singleton \E, to the value the code computes
ForwardSample ==
    /\ pc = "forward"
    /\ IF Len(self_sampling_ratio) < 2
       THEN Raise("IndexError")
       ELSE
        \E channels \in {bottom_data.shape[2]},
           height \in {bottom_data.shape[3]},
           width \in {bottom_data.shape[4]} :
        \E d \in {Decode(i, self_outw, self_outh, channels)} :
        \E g \in {ForwardGeom(d.n)} :
        \E y \in {SampleCoord(g.roi_start_h, d.ph, g.bin_size_h, iy,
                              g.roi_bin_grid_h)},
           x \in {SampleCoord(g.roi_start_w, d.pw, g.bin_size_w, ix,
                              g.roi_bin_grid_w)} :
        \E p \in {get_bilinear_interp_params(y, x, height, width)} :
        \E nxt \in {LoopAdvance(g)} :
            IF ~p.valid
            THEN \* "continue": ix is not advanced
                 /\ ncalls' = CountCall(g)
                 /\ UNCHANGED <<pc, i, iy, ix, output_val, top_data>>
                 /\ UNCHANGED <<ctorVars, self_bottom_data_shape, inputVars,
                                top_diff, bottom_diff>>
            ELSE
              \E acc \in {RAdd(output_val,
                               Interpolate(p, bottom_data.val,
                                           g.roi_batch_ind, d.c))} :
                 /\ ncalls' = IF nxt.elemEnd THEN 0 ELSE CountCall(g)
                 /\ iy' = IF nxt.elemEnd THEN 0 ELSE nxt.iy
                 /\ ix' = IF nxt.elemEnd THEN 0 ELSE nxt.ix
                 /\ output_val' = IF nxt.elemEnd THEN R(0) ELSE acc
                 /\ top_data' =
                     IF nxt.elemEnd
                     THEN [top_data EXCEPT ![<<d.n, d.c, d.ph, d.pw>>] =
                                             RDiv(acc, g.count)]
                     ELSE top_data
                 /\ i' = IF nxt.elemEnd THEN i + 1 ELSE i
                 /\ pc' = IF nxt.elemEnd
                             /\ i + 1 = Len(bottom_rois) * channels
                                            * self_outh * self_outw
                          THEN "fwd_done" ELSE "forward"
                 /\ UNCHANGED <<ctorVars, self_bottom_data_shape, inputVars,
                                top_diff, bottom_diff>>
    /\ UNCHANGED <<samplerVars, gpuVars, otherVars>>

(***************************************************************************)
(* ROIAverageAlign2D.backward_cpu                                          *)
(***************************************************************************)
\* variant: the corner is assigned, not accumulated ("=" for "+=")
AddAt_Assign(diff, cell, g) == [diff EXCEPT ![cell] = g]

\* bottom_diff[b, c, y, x] += g
AddAt(diff, cell, g) == [diff EXCEPT ![cell] = RAdd(@, g)]

\* variant: the gradients are not divided by count
Scatter_NoCount(diff, p, b, c, tdiff, count) ==
    LET g1 == RMul(tdiff, p.w1)
        g2 == RMul(tdiff, p.w2)
        g3 == RMul(tdiff, p.w3)
        g4 == RMul(tdiff, p.w4)
    IN  IF BackwardGuard(p)
        THEN AddAt(AddAt(AddAt(AddAt(diff,
                 <<b, c, p.y_low, p.x_low>>, g1),
                 <<b, c, p.y_low, p.x_high>>, g2),
                 <<b, c, p.y_high, p.x_low>>, g3),
                 <<b, c, p.y_high, p.x_high>>, g4)
        ELSE diff

\* the four corner writes of one valid sample, in program order
Scatter(diff, p, b, c, tdiff, count) ==
    LET g1 == RDiv(RMul(tdiff, p.w1), count)
        g2 == RDiv(RMul(tdiff, p.w2), count)
        g3 == RDiv(RMul(tdiff, p.w3), count)
        g4 == RDiv(RMul(tdiff, p.w4), count)
    IN  IF BackwardGuard(p)
        THEN AddAt(AddAt(AddAt(AddAt(diff,
                 <<b, c, p.y_low, p.x_low>>, g1),
                 <<b, c, p.y_low, p.x_high>>, g2),
                 <<b, c, p.y_high, p.x_low>>, g3),
                 <<b, c, p.y_high, p.x_high>>, g4)
        ELSE diff

BackwardCall ==
    /\ pc = "fwd_done"
    /\ \E gy \in GradOutputs(Len(bottom_rois), self_bottom_data_shape[2],
                             self_outh, self_outw) :
        /\ top_diff' = gy
        /\ pc' = IF DOMAIN gy = {} THEN "bwd_done" ELSE "backward"
    /\ bottom_diff' = [cell \in Cells(self_bottom_data_shape) |-> R(0)]
    /\ i' = 0 /\ iy' = 0 /\ ix' = 0
    /\ ncalls' = 0
    /\ UNCHANGED <<ctorVars, self_bottom_data_shape, inputVars, top_data,
                   output_val>>
    /\ UNCHANGED <<samplerVars, gpuVars, otherVars>>

\* one pass through the body of the inner while loop
BackwardSample ==
    /\ pc = "backward"
    /\ \E channels \in {self_bottom_data_shape[2]},
          height \in {self_bottom_data_shape[3]},
          width \in {self_bottom_data_shape[4]} :
       \E d \in {Decode(i, self_outw, self_outh, channels)} :
       \E g \in {BackwardGeom(d.n)} :
       \E y \in {SampleCoord(g.roi_start_h, d.ph, g.bin_size_h, iy,
                             g.roi_bin_grid_h)},
          x \in {SampleCoord(g.roi_start_w, d.pw, g.bin_size_w, ix,
                             g.roi_bin_grid_w)} :
       \E p \in {get_bilinear_interp_params(y, x, height, width)} :
       \E nxt \in {LoopAdvance(g)} :
           IF ~p.valid
           THEN \* "continue": ix is not advanced
                /\ ncalls' = CountCall(g)
                /\ UNCHANGED <<pc, i, iy, ix, bottom_diff>>
           ELSE /\ ncalls' = IF nxt.elemEnd THEN 0 ELSE CountCall(g)
                /\ bottom_diff' =
                     Scatter(bottom_diff, p, g.roi_batch_ind, d.c,
                             top_diff[<<d.n, d.c, d.ph, d.pw>>], g.count)
                /\ iy' = IF nxt.elemEnd THEN 0 ELSE nxt.iy
                /\ ix' = IF nxt.elemEnd THEN 0 ELSE nxt.ix
                /\ i' = IF nxt.elemEnd THEN i + 1 ELSE i
                /\ pc' = IF nxt.elemEnd
                            /\ i + 1 = Cardinality(DOMAIN top_diff)
                         THEN "bwd_done" ELSE "backward"
    /\ UNCHANGED <<ctorVars, self_bottom_data_shape, inputVars, top_data,
                   top_diff, output_val>>
    /\ UNCHANGED <<samplerVars, gpuVars, otherVars>>

Next ==
    \/ Construct
    \/ ForwardCall
    \/ ForwardSample
    \/ BackwardCall
    \/ BackwardSample

Spec == Init /\ [][Next]_vars

(***************************************************************************)
(* Several calls on one operator instance: forward on feature maps of      *)
(* different shapes, and backward for the output gradient of any of the    *)
(* forward calls made so far.  The inputs of backward are the explicit     *)
(* inputs of that forward call; self._bottom_data_shape is whatever the    *)
(* instance holds.                                                         *)
(***************************************************************************)
MaxCalls == 2

\* the shapes of the feature maps of the calls: they differ in the batch
\* size and in the plane
CallShapes == {FeatureShape, <<1, FeatureShape[2], Height + 1, Width + 1>>}

\* one feature map per shape: 1 at the origin, 0 elsewhere
CallFeatureMaps ==
    {[shape |-> sh,
      val |-> [cell \in Cells(sh) |->
                  IF cell = <<0, 0, 0, 0>> THEN R(1) ELSE R(0)]] :
        sh \in CallShapes}

\* ROI arrays whose sample points are valid in every plane of CallShapes
CallRoiInputs == {<<RoiRows[1]>>, <<RoiRows[1], RoiRows[3]>>}

InitCalls ==
    /\ pc = "new"
    /\ arg_outsize = Scalar(PyInt(1))
    /\ arg_spatial_scale = Scalar(PyInt(1))
    /\ arg_sampling_ratio \in {Scalar(PyNone), Scalar(PyInt(MaxRatio))}
    /\ KernelUnset
    /\ SamplerIdle
    /\ OtherIdle

\* forward_cpu up to its loop, on an instance that may have been used before
ForwardCpuCall ==
    /\ pc \in {"constructed", "fwd_done", "bwd_done"}
    /\ Len(calls) < MaxCalls
    /\ \E data \in CallFeatureMaps, rows \in CallRoiInputs :
        /\ bottom_data' = data
        /\ bottom_rois' = [k \in 1 .. Len(rows) |-> rows[k].box]
        /\ bottom_roi_indices' = [k \in 1 .. Len(rows) |-> rows[k].ind]
        /\ self_bottom_data_shape' = data.shape
        /\ top_data' = [e \in OutIndex(Len(rows), data.shape[2],
                                       self_outh, self_outw) |-> Uninit]
        /\ calls' = Append(calls, [shape |-> data.shape, rows |-> rows])
    /\ pc' = "forward"
    /\ i' = 0 /\ iy' = 0 /\ ix' = 0
    /\ output_val' = R(0)
    /\ ncalls' = 0
    /\ UNCHANGED <<ctorVars, top_diff, bottom_diff, bwd_of>>
    /\ UNCHANGED <<samplerVars, gpuVars, printerVars, scheduleVars>>

\* backward_cpu up to its loop, given the retained inputs and the output
\* gradient of forward call j
BackwardCpuCall ==
    /\ pc \in {"fwd_done", "bwd_done"}
    /\ \E j \in 1 .. Len(calls) :
        /\ bwd_of' = j
        /\ bottom_rois' = [k \in 1 .. Len(calls[j].rows) |->
                               calls[j].rows[k].box]
        /\ bottom_roi_indices' = [k \in 1 .. Len(calls[j].rows) |->
                                      calls[j].rows[k].ind]
        /\ \E gy \in GradOutputs(Len(calls[j].rows), calls[j].shape[2],
                                 self_outh, self_outw) :
            top_diff' = gy
    /\ bottom_diff' = [cell \in Cells(self_bottom_data_shape) |-> R(0)]
    /\ pc' = "backward"
    /\ i' = 0 /\ iy' = 0 /\ ix' = 0
    /\ ncalls' = 0
    /\ UNCHANGED <<ctorVars, self_bottom_data_shape, bottom_data, top_data,
                   output_val, calls>>
    /\ UNCHANGED <<samplerVars, gpuVars, printerVars, scheduleVars>>

NextCalls ==
    \/ Construct
    \/ ForwardCpuCall
    \/ ForwardSample
    \/ BackwardCpuCall
    \/ BackwardSample

SpecCalls == InitCalls /\ [][NextCalls]_vars

\* C11: the operations are stateless across calls: the gradient that a
\* backward call returns has the shape of the feature map of the forward call
\* whose output gradient it was given, whatever other calls were made on the
\* instance in between.
C11_Stateless ==
    (pc = "bwd_done" /\ bwd_of > 0) =>
        DOMAIN bottom_diff = Cells(calls[bwd_of].shape)

(***************************************************************************)
(* Properties of forward_cpu and backward_cpu.                             *)
(***************************************************************************)
Running == pc \in {"forward", "backward"} /\ Len(self_sampling_ratio) >= 2

\* the output element the running kernel is at, and its geometry
CurrentElem == Decode(i, self_outw, self_outh, self_bottom_data_shape[2])
CurrentGeom == ForwardGeom(CurrentElem.n)

\* sample point k (row-major in the grid) of output element d of an ROI with
\* geometry g, resolved on the plane of the feature map
SamplePoint(d, g, k) ==
    LET gw == RInt(g.roi_bin_grid_w)
    IN  get_bilinear_interp_params(
            SampleCoord(g.roi_start_h, d.ph, g.bin_size_h, k \div gw,
                        g.roi_bin_grid_h),
            SampleCoord(g.roi_start_w, d.pw, g.bin_size_w, k % gw,
                        g.roi_bin_grid_w),
            self_bottom_data_shape[3], self_bottom_data_shape[4])

\* sum of the interpolated values of the valid sample points k .. count - 1
RECURSIVE ValidSampleSum(_, _, _)
ValidSampleSum(d, g, k) ==
    IF k >= RInt(g.count) THEN R(0)
    ELSE LET p == SamplePoint(d, g, k)
         IN  IF p.valid
             THEN RAdd(Interpolate(p, bottom_data.val, g.roi_batch_ind, d.c),
                       ValidSampleSum(d, g, k + 1))
             ELSE ValidSampleSum(d, g, k + 1)

\* the value the claim gives output[n, c, ph, pw]
ExpectedOutput(e) ==
    LET d == [n |-> e[1], c |-> e[2], ph |-> e[3], pw |-> e[4]]
        g == ForwardGeom(e[1])
    IN  RDiv(ValidSampleSum(d, g, 0), g.count)

AllSamplesValid(e) ==
    LET d == [n |-> e[1], c |-> e[2], ph |-> e[3], pw |-> e[4]]
        g == ForwardGeom(e[1])
    IN  \A k \in 0 .. RInt(g.count) - 1 : SamplePoint(d, g, k).valid

RECURSIVE SumOver(_, _)
SumOver(S, f) ==
    IF S = {} THEN R(0)
    ELSE LET e == CHOOSE e \in S : TRUE
         IN  RAdd(f[e], SumOver(S \ {e}, f))

\* the cell of the feature map that holds 1
HotCell == CHOOSE cell \in DOMAIN bottom_data.val : bottom_data.val[cell] = R(1)

\* C1: the sample loop of a kernel resolves each of the grid_h * grid_w sample
\* points of an output element exactly once: it never calls the sampler more
\* than count times for one output element.
C1_EachSampleOnce ==
    Running => ncalls <= RInt(CurrentGeom.count)

\* the flat index of output element e
FlatIndex(e) ==
    ((e[1] * self_bottom_data_shape[2] + e[2]) * self_outh + e[3]) * self_outw
        + e[4]

\* forward has been through the sample loop of output element e as many times
\* as e has sample points
SamplesResolved(e) ==
    \/ pc \in {"fwd_done", "backward", "bwd_done"}
    \/ /\ pc = "forward" /\ Len(self_sampling_ratio) >= 2
       /\ \/ FlatIndex(e) < i
          \/ FlatIndex(e) = i /\ ncalls >= RInt(ForwardGeom(e[1]).count)

\* C2: forward sets output[n, c, ph, pw] to the sum of the interpolated values
\* of the valid sample points divided by count = grid_h * grid_w, an Invalid
\* sample adding nothing (0 for a bin whose samples are all Invalid): once the
\* sample points of an element are resolved, the element holds that value.
C2_ForwardOutput ==
    \A e \in DOMAIN top_data :
        SamplesResolved(e) => top_data[e] = ExpectedOutput(e)

\* C3: backward is the adjoint of forward: with the feature map that is 1 at
\* the cell [b, c, y, x] and 0 elsewhere, forward's output[n, c, ph, pw] is
\* the coefficient with which that cell enters the output element, and
\* feature_map_grad[b, c, y, x] is the sum over the (n, ph, pw) with
\* roi_batch_indices[n] = b of output_grad[n, c, ph, pw] times it.
C3_Adjoint ==
    (pc = "bwd_done" /\ top_diff # NoTensor) =>
        LET hot == HotCell
            terms == {e \in DOMAIN top_diff :
                         e[2] = hot[2] /\ bottom_roi_indices[e[1] + 1] = hot[1]}
        IN  /\ \A n \in 0 .. Len(bottom_rois) - 1 :
                   BackwardGeom(n) = ForwardGeom(n)
            /\ bottom_diff[hot] =
                   SumOver(terms, [e \in terms |->
                                      RMul(top_diff[e], top_data[e])])

\* a finished backward whose hot cell received gradient from two ROIs, every
\* output element of its channel having sampled it
C3_Witness ==
    /\ pc = "bwd_done"
    /\ Len(bottom_rois) = 2
    /\ \A e \in DOMAIN top_data : e[2] = HotCell[2] => top_data[e] # R(0)
    /\ bottom_diff[HotCell] # R(0)
    /\ \E n \in 0 .. 1 : RInt(ForwardGeom(n).count) > 1

\* C4: for a single ROI whose sample points are all valid, the sum of
\* feature_map_grad over the feature map equals the sum of output_grad.
C4_GradientMass ==
    (/\ pc = "bwd_done"
     /\ Len(bottom_rois) = 1
     /\ \A e \in DOMAIN top_diff : AllSamplesValid(e)) =>
        SumOver(DOMAIN bottom_diff, bottom_diff)
            = SumOver(DOMAIN top_diff, top_diff)

\* a finished backward for one ROI with several bins and several samples
C4_Witness ==
    /\ pc = "bwd_done"
    /\ Len(bottom_rois) = 1
    /\ Cardinality(DOMAIN top_diff) > 1
    /\ RInt(ForwardGeom(0).count) > 1
    /\ \A e \in DOMAIN top_diff : AllSamplesValid(e)
    /\ Cardinality({cell \in DOMAIN bottom_diff :
                       bottom_diff[cell] # R(0)}) > 1

\* "None, a single integer >= 1, or a pair of (integer >= 1 or None)"
IsRatioEntry(x) == x.t = "None" \/ (x.t = "int" /\ RLe(R(1), x.v))
ValidSamplingRatioArg(a) ==
    IF a.iter
    THEN Len(a.items) = 2 /\ IsRatioEntry(a.items[1]) /\ IsRatioEntry(a.items[2])
    ELSE IsRatioEntry(a.items[1])

Constructed == pc \notin {"idle", "new", "TypeError", "ValueError"}

\* C9: every successfully constructed operator has a strictly positive
\* spatial_scale: __init__ raises for zero and negative values, int or float.
C9_PositiveScale ==
    Constructed =>
        /\ RLt(R(0), self_spatial_scale)
        /\ ~arg_spatial_scale.iter
        /\ RLt(R(0), arg_spatial_scale.items[1].v)

\* C10: __init__ accepts sampling_ratio only when it is None, an integer >= 1
\* or a pair of entries each None or an integer >= 1, so that no later call
\* fails because of sampling_ratio.
C10_SamplingRatioValidated ==
    /\ Constructed => ValidSamplingRatioArg(arg_sampling_ratio)
    /\ pc # "IndexError"

(***************************************************************************)
(* Properties of the flat index.                                           *)
(***************************************************************************)
\* the element (n, c, ph, pw) that flat index k is decoded to
DecodedIndex(k) ==
    LET d == Decode(k, self_outw, self_outh, self_bottom_data_shape[2])
    IN  <<d.n, d.c, d.ph, d.pw>>

\* the elements that the flat indices 0 .. m - 1 are decoded to
DecodedBelow(m) == {DecodedIndex(k) : k \in 0 .. m - 1}

\* the elements of the output tensor that forward has written
Written == {e \in DOMAIN top_data : top_data[e] # Uninit}

\* C17: the decoding of the flat index i to (n, c, ph, pw) is a bijection from
\* 0 .. N*C*OH*OW - 1 onto the index domain of the output: forward has written
\* exactly the elements of the indices it is through with, each once, and all
\* of them when it returns; backward reads every element of output_grad once.
C17_DecodeBijection ==
    /\ pc \in {"forward", "fwd_done"} =>
        /\ DecodedBelow(Cardinality(DOMAIN top_data)) = DOMAIN top_data
        /\ Written = DecodedBelow(i)
        /\ Cardinality(Written) = i
        /\ pc = "fwd_done" => Written = DOMAIN top_data
    /\ pc \in {"backward", "bwd_done"} =>
        /\ DecodedBelow(Cardinality(DOMAIN top_diff)) = DOMAIN top_diff
        /\ Cardinality(DecodedBelow(i)) = i

\* forward has returned an output with more than one ROI, channel and row
C17_Witness ==
    /\ pc = "fwd_done"
    /\ Len(bottom_rois) > 1
    /\ self_bottom_data_shape[2] > 1
    /\ self_outh > 1
    /\ Written = DOMAIN top_data

(***************************************************************************)
(* Properties of the sampling grid.                                        *)
(***************************************************************************)
\* the scaled extent of a ROI along one axis, clamped to at least 1.0
ClampedExtent(lo, hi) ==
    LET ext == RMul(RSub(hi, lo), self_spatial_scale)
    IN  IF RLt(ext, R(1)) THEN R(1) ELSE ext

\* m is ceil(ext / pooled): the least integer with m * pooled >= ext
IsCeilOf(m, ext, pooled) ==
    /\ m[2] = 1
    /\ RLe(ext, RMul(m, R(pooled)))
    /\ RLt(RMul(RSub(m, R(1)), R(pooled)), ext)

\* grid is the sampling grid size the configuration asks for on an axis
GridAsConfigured(grid, ratio, ext, pooled) ==
    /\ grid[2] = 1
    /\ RLe(R(1), grid)
    /\ IF ratio.t = "None" THEN IsCeilOf(grid, ext, pooled)
       ELSE grid = ratio.v

\* C13: for every ROI and axis the sampling grid size is the explicit
\* sampling_ratio when one is given and otherwise ceil(extent / pooled extent)
\* of the scaled extent clamped to at least 1.0; it is an integer >= 1, and
\* count = grid_h * grid_w >= 1.
C13_GridSize ==
    Running =>
        \A n \in 0 .. Len(bottom_rois) - 1 :
        \A g \in {ForwardGeom(n)} :
            /\ GridAsConfigured(g.roi_bin_grid_h, self_sampling_ratio[1],
                   ClampedExtent(bottom_rois[n + 1][1], bottom_rois[n + 1][3]),
                   self_outh)
            /\ GridAsConfigured(g.roi_bin_grid_w, self_sampling_ratio[2],
                   ClampedExtent(bottom_rois[n + 1][2], bottom_rois[n + 1][4]),
                   self_outw)
            /\ g.count = R(RInt(g.roi_bin_grid_h) * RInt(g.roi_bin_grid_w))
            /\ RLe(R(1), g.count)

\* a kernel runs on a ROI of extent 0 with the grid automatic on one axis and
\* explicit, greater than 1, on the other
C13_Witness ==
    /\ Running
    /\ self_sampling_ratio[1].t = "None"
    /\ self_sampling_ratio[2] = PyInt(MaxRatio)
    /\ ncalls > 0
    /\ \E n \in {CurrentElem.n + 1} :
          /\ bottom_rois[n][1] = bottom_rois[n][3]
          /\ ForwardGeom(n - 1).count = R(MaxRatio)

(***************************************************************************)
(* The device kernels: ROIAverageAlign2D.forward_gpu and backward_gpu.     *)
(* Each work item i of an elementwise kernel runs the kernel body; the     *)
(* work items of backward share bottom_diff through atomicAdd.             *)
(***************************************************************************)
\* the device function, called as get_bilinear_interp_params(x, y, ...)
get_bilinear_interp_params_gpu(x, y, height, width) ==
    get_bilinear_interp_params(y, x, height, width)

\* the int32 decoding of the flat index
DecodeGpu(k, pooled_width, pooled_height, channels) ==
    [pw |-> k % pooled_width,
     ph |-> (k \div pooled_width) % pooled_height,
     c  |-> ((k \div pooled_width) \div pooled_height) % channels,
     n  |-> ((k \div pooled_width) \div pooled_height) \div channels]

\* sampling_ratio_h / sampling_ratio_w handed to the kernel: 0 for None
KernelRatio(s) == IF s.t = "None" THEN 0 ELSE RInt(s.v)

\* ROI n scaled, its bin size, the int sampling grid and count
GpuGeometry(n, rois, indices, spatial_scale, sampling_ratio, pooled_height, pooled_width) ==
    LET sampling_ratio_h == KernelRatio(sampling_ratio[1])
        sampling_ratio_w == KernelRatio(sampling_ratio[2])
        roi_start_h == RMul(rois[n + 1][1], spatial_scale)
        roi_start_w == RMul(rois[n + 1][2], spatial_scale)
        roi_end_h   == RMul(rois[n + 1][3], spatial_scale)
        roi_end_w   == RMul(rois[n + 1][4], spatial_scale)
        roi_height  == RMax(RSub(roi_end_h, roi_start_h), R(1))
        roi_width   == RMax(RSub(roi_end_w, roi_start_w), R(1))
        bin_size_h  == RDiv(roi_height, R(pooled_height))
        bin_size_w  == RDiv(roi_width, R(pooled_width))
        roi_bin_grid_h ==
            IF sampling_ratio_h > 0 THEN sampling_ratio_h
            ELSE RInt(RCeil(RDiv(roi_height, R(pooled_height))))
        roi_bin_grid_w ==
            IF sampling_ratio_w > 0 THEN sampling_ratio_w
            ELSE RInt(RCeil(RDiv(roi_width, R(pooled_width))))
    IN  [roi_batch_ind |-> indices[n + 1],
         roi_start_h |-> roi_start_h, roi_start_w |-> roi_start_w,
         bin_size_h |-> bin_size_h, bin_size_w |-> bin_size_w,
         roi_bin_grid_h |-> roi_bin_grid_h,
         roi_bin_grid_w |-> roi_bin_grid_w,
         count |-> R(roi_bin_grid_h * roi_bin_grid_w)]

\* sample point (iy, ix) = (k \div grid_w, k % grid_w) of the two for loops
GpuSample(d, g, k, height, width) ==
    get_bilinear_interp_params_gpu(
        SampleCoord(g.roi_start_w, d.pw, g.bin_size_w, k % g.roi_bin_grid_w,
                    R(g.roi_bin_grid_w)),
        SampleCoord(g.roi_start_h, d.ph, g.bin_size_h, k \div g.roi_bin_grid_w,
                    R(g.roi_bin_grid_h)),
        height, width)

\* output_val of the forward kernel after the sample points k .. count - 1
RECURSIVE GpuForwardSum(_, _, _, _)
GpuForwardSum(data, d, g, k) ==
    IF k >= g.roi_bin_grid_h * g.roi_bin_grid_w THEN R(0)
    ELSE LET p == GpuSample(d, g, k, data.shape[3], data.shape[4])
         IN  IF p.valid
             THEN RAdd(Interpolate(p, data.val, g.roi_batch_ind, d.c),
                       GpuForwardSum(data, d, g, k + 1))
             ELSE GpuForwardSum(data, d, g, k + 1)

\* the body of the forward kernel for work item k: top_data = output_val
GpuForwardValue(data, rows, k) ==
    LET d == DecodeGpu(k, self_outw, self_outh, data.shape[2])
        g == GpuGeometry(d.n, [j \in 1 .. Len(rows) |-> rows[j].box],
                         [j \in 1 .. Len(rows) |-> rows[j].ind],
                         self_spatial_scale, self_sampling_ratio,
                         self_outh, self_outw)
    IN  RDiv(GpuForwardSum(data, d, g, 0), g.count)

\* the atomicAdds of work item k of the backward kernel from sample point s
\* on, in program order, each <<cell, value>>
RECURSIVE GpuWritesFrom(_, _, _, _)
GpuWritesFrom(d, g, tdiff, s) ==
    IF s >= g.roi_bin_grid_h * g.roi_bin_grid_w THEN <<>>
    ELSE LET p == GpuSample(d, g, s, self_bottom_data_shape[3],
                            self_bottom_data_shape[4])
             b == g.roi_batch_ind
         IN  (IF p.valid /\ BackwardGuard(p)
              THEN << <<<<b, d.c, p.y_low, p.x_low>>,
                        RDiv(RMul(tdiff, p.w1), g.count)>>,
                      <<<<b, d.c, p.y_low, p.x_high>>,
                        RDiv(RMul(tdiff, p.w2), g.count)>>,
                      <<<<b, d.c, p.y_high, p.x_low>>,
                        RDiv(RMul(tdiff, p.w3), g.count)>>,
                      <<<<b, d.c, p.y_high, p.x_high>>,
                        RDiv(RMul(tdiff, p.w4), g.count)>> >>
              ELSE <<>>)
             \o GpuWritesFrom(d, g, tdiff, s + 1)

GpuWrites(k) ==
    LET d == DecodeGpu(k, self_outw, self_outh, self_bottom_data_shape[2])
        g == GpuGeometry(d.n, bottom_rois, bottom_roi_indices,
                         self_spatial_scale, self_sampling_ratio,
                         self_outh, self_outw)
    IN  GpuWritesFrom(d, g, top_diff[<<d.n, d.c, d.ph, d.pw>>], 0)

\* variant: a plain store in place of the atomic read-modify-write
atomicAdd_Store(diff, cell, g) == [diff EXCEPT ![cell] = g]

\* atomicAdd(&bottom_diff[...], g)
atomicAdd(diff, cell, g) == [diff EXCEPT ![cell] = RAdd(@, g)]

\* the feature maps given to the device kernels: one channel
GpuFeatureMaps ==
    {[shape |-> <<NBatch, 1, Height, Width>>,
      val |-> [cell \in Cells(<<NBatch, 1, Height, Width>>) |->
                  IF cell = hot THEN R(1) ELSE R(0)]] :
        hot \in Cells(<<NBatch, 1, Height, Width>>)}

\* operators with outsize 1 and a sampling grid fixed or automatic per axis
InitGpu ==
    /\ pc = "new"
    /\ arg_outsize = Scalar(PyInt(1))
    /\ arg_spatial_scale \in {Scalar(PyInt(1)), Scalar(PyFloat(Frac(1, 2)))}
    /\ arg_sampling_ratio \in {Scalar(PyNone),
                               Tuple(<<PyInt(1), PyInt(MaxRatio)>>),
                               Tuple(<<PyInt(MaxRatio), PyNone>>)}
    /\ KernelUnset
    /\ SamplerIdle
    /\ OtherIdle

ForwardGpuCall ==
    /\ pc = "constructed"
    /\ IF Len(self_sampling_ratio) < 2
       THEN Raise("IndexError")
       ELSE \E data \in GpuFeatureMaps, rows \in RoiInputs :
            /\ bottom_data' = data
            /\ bottom_rois' = [k \in 1 .. Len(rows) |-> rows[k].box]
            /\ bottom_roi_indices' = [k \in 1 .. Len(rows) |-> rows[k].ind]
            /\ self_bottom_data_shape' = data.shape
            /\ top_data' =
                 [e \in OutIndex(Len(rows), data.shape[2],
                                 self_outh, self_outw) |->
                     GpuForwardValue(data, rows,
                         ((e[1] * data.shape[2] + e[2]) * self_outh + e[3])
                             * self_outw + e[4])]
            /\ pc' = "gpu_fwd_done"
            /\ UNCHANGED <<ctorVars, top_diff, bottom_diff, loopVars>>
    /\ UNCHANGED <<samplerVars, gpuVars, otherVars>>

\* backward_gpu up to the launch of the kernel; the operator keeps the ROI
\* arrays and the shape of forward's feature map, not the feature map
BackwardGpuCall ==
    /\ pc = "gpu_fwd_done"
    /\ \E gy \in GradOutputs(Len(bottom_rois), self_bottom_data_shape[2],
                             self_outh, self_outw) :
        /\ top_diff' = gy
        /\ tpos' = [k \in 0 .. Cardinality(DOMAIN gy) - 1 |-> 0]
    /\ bottom_diff' = [cell \in Cells(self_bottom_data_shape) |-> R(0)]
    /\ bottom_data' = [shape |-> self_bottom_data_shape, val |-> NoTensor]
    /\ top_data' = NoTensor
    /\ pc' = "gpu_backward"
    /\ UNCHANGED <<ctorVars, self_bottom_data_shape, bottom_rois,
                   bottom_roi_indices, loopVars>>
    /\ UNCHANGED <<samplerVars, otherVars>>

\* work item k performs its next atomicAdd
BackwardGpuAtomicAdd(k) ==
    /\ pc = "gpu_backward"
    /\ \E w \in {GpuWrites(k)} :
        /\ tpos[k] < Len(w)
        /\ bottom_diff' = atomicAdd(bottom_diff, w[tpos[k] + 1][1],
                                    w[tpos[k] + 1][2])
        /\ tpos' = [tpos EXCEPT ![k] = @ + 1]
    /\ UNCHANGED <<pc, ctorVars, self_bottom_data_shape, inputVars, top_data,
                   top_diff, loopVars>>
    /\ UNCHANGED <<samplerVars, otherVars>>

\* every work item has run to its end: backward_gpu returns bottom_diff
BackwardGpuReturn ==
    /\ pc = "gpu_backward"
    /\ \A k \in DOMAIN tpos : tpos[k] = Len(GpuWrites(k))
    /\ pc' = "gpu_bwd_done"
    /\ UNCHANGED <<ctorVars, self_bottom_data_shape, inputVars, top_data,
                   top_diff, bottom_diff, loopVars, gpuVars>>
    /\ UNCHANGED <<samplerVars, otherVars>>

NextGpu ==
    \/ Construct
    \/ ForwardGpuCall
    \/ BackwardGpuCall
    \/ \E k \in DOMAIN tpos : BackwardGpuAtomicAdd(k)
    \/ BackwardGpuReturn

SpecGpu == InitGpu /\ [][NextGpu]_vars

(***************************************************************************)
(* Properties of the scatter-accumulate of backward.                       *)
(***************************************************************************)
\* the sum of the first m values that the writes w add to cell
RECURSIVE WrittenTo(_, _, _)
WrittenTo(w, m, cell) ==
    IF m = 0 THEN R(0)
    ELSE IF w[m][1] = cell
    THEN RAdd(WrittenTo(w, m - 1, cell), w[m][2])
    ELSE WrittenTo(w, m - 1, cell)

\* zero plus what the work items 0 .. k have contributed to cell so far,
\* summed work item by work item; ws[j] are the atomicAdds of work item j
RECURSIVE Contributed(_, _, _)
Contributed(ws, k, cell) ==
    IF k < 0 THEN R(0)
    ELSE RAdd(Contributed(ws, k - 1, cell), WrittenTo(ws[k], tpos[k], cell))

\* C5: the scatter-accumulate loses no contribution and does not depend on
\* the order of the work items: under every interleaving of the atomicAdds,
\* each cell of feature_map_grad is zero plus the sum of the contributions
\* made to it so far, so that the returned gradient is the sum of all of them.
C5_ScatterAccumulate ==
    pc \in {"gpu_backward", "gpu_bwd_done"} =>
        \A ws \in {[k \in DOMAIN tpos |-> GpuWrites(k)]} :
        \A cell \in DOMAIN bottom_diff :
            bottom_diff[cell] =
                Contributed(ws, Cardinality(DOMAIN tpos) - 1, cell)

\* the returned gradient has a cell that two ROIs have both added to
C5_Witness ==
    /\ pc = "gpu_bwd_done"
    /\ \E cell \in DOMAIN bottom_diff :
       \E k1, k2 \in DOMAIN tpos :
          /\ k1 # k2
          /\ WrittenTo(GpuWrites(k1), tpos[k1], cell) # R(0)
          /\ WrittenTo(GpuWrites(k2), tpos[k2], cell) # R(0)

(***************************************************************************)
(* The sequential kernels against the device kernels on the same inputs.   *)
(***************************************************************************)
\* the inputs of the running call as rows of (box, batch index)
CurrentRows ==
    [j \in 1 .. Len(bottom_rois) |->
        [box |-> bottom_rois[j], ind |-> bottom_roi_indices[j]]]

\* the output tensor forward_gpu computes from the inputs of the call
GpuOutput ==
    [e \in DOMAIN top_data |->
        GpuForwardValue(bottom_data, CurrentRows, FlatIndex(e))]

\* what work items 0 .. k of the backward kernel add to cell in all
RECURSIVE GpuGradientUpTo(_, _)
GpuGradientUpTo(k, cell) ==
    IF k < 0 THEN R(0)
    ELSE \* bind the writes of work item k once
         LET w == GpuWrites(k)
         IN  RAdd(GpuGradientUpTo(k - 1, cell), WrittenTo(w, Len(w), cell))

\* the gradient backward_gpu computes from the inputs of the call
GpuGradient ==
    [cell \in Cells(self_bottom_data_shape) |->
        GpuGradientUpTo(Cardinality(DOMAIN top_diff) - 1, cell)]

\* the sequential kernel is in a sample loop it will not leave
Spinning == Running /\ ncalls > RInt(CurrentGeom.count)

\* the sequential kernels agree with the device kernels whenever they return
C12_AgreeOnReturn ==
    /\ pc = "fwd_done" => top_data = GpuOutput
    /\ pc = "bwd_done" => bottom_diff = GpuGradient

\* C12: the sequential and the device-parallel implementations are
\* interchangeable: on the same configuration and inputs both produce the
\* same output tensor (the same feature-map gradient) or neither produces
\* one.  The device kernels run bounded for loops and always produce one, so
\* the sequential kernels must return, and return the same tensor.
C12_Interchangeable ==
    /\ ~Spinning
    /\ C12_AgreeOnReturn

(***************************************************************************)
(* The sampler applied to arguments drawn from a grid of coordinates       *)
(* around planes of every size up to MaxPlane.                             *)
(***************************************************************************)
SamplerCoords(extent) ==
    {Frac(k, CoordDen) : k \in (-2 * CoordDen) .. ((extent + 1) * CoordDen)}

InitSampler ==
    /\ s_pc = "args"
    /\ s_height \in 1 .. MaxPlane
    /\ s_width \in 1 .. MaxPlane
    /\ s_y \in SamplerCoords(s_height)
    /\ s_x \in SamplerCoords(s_width)
    /\ bp = NoneParams
    /\ KernelIdle
    /\ OtherIdle

Resolve ==
    /\ s_pc = "args"
    /\ bp' = get_bilinear_interp_params(s_y, s_x, s_height, s_width)
    /\ s_pc' = "returned"
    /\ UNCHANGED <<s_y, s_x, s_height, s_width>>
    /\ UNCHANGED <<kernelVars, otherVars>>

NextSampler == Resolve

SpecSampler == InitSampler /\ [][NextSampler]_vars

(***************************************************************************)
(* Properties of the sampler.                                              *)
(***************************************************************************)
InUnit(r) == RLe(R(0), r) /\ RLe(r, R(1))

\* C6: whenever the sampler returns a valid result its four weights are each
\* in [0, 1] and sum to exactly 1, being the products hy*hx, hy*lx, ly*hx,
\* ly*lx of offsets 0 <= ly, lx < 1 and their complements.
C6_WeightsSumToOne ==
    (s_pc = "returned" /\ bp.valid) =>
        /\ InUnit(bp.w1) /\ InUnit(bp.w2) /\ InUnit(bp.w3) /\ InUnit(bp.w4)
        /\ RAdd(RAdd(bp.w1, bp.w2), RAdd(bp.w3, bp.w4)) = R(1)
        /\ RLe(R(0), bp.ly) /\ RLt(bp.ly, R(1))
        /\ RLe(R(0), bp.lx) /\ RLt(bp.lx, R(1))
        /\ bp.w1 = RMul(RSub(R(1), bp.ly), RSub(R(1), bp.lx))
        /\ bp.w2 = RMul(RSub(R(1), bp.ly), bp.lx)
        /\ bp.w3 = RMul(bp.ly, RSub(R(1), bp.lx))
        /\ bp.w4 = RMul(bp.ly, bp.lx)

\* a valid result strictly inside a cell: all four weights are positive
C6_Witness ==
    /\ s_pc = "returned" /\ bp.valid
    /\ RLt(R(0), bp.w1) /\ RLt(R(0), bp.w2)
    /\ RLt(R(0), bp.w3) /\ RLt(R(0), bp.w4)

\* C7: the sampler returns Invalid exactly when y < -1 or y > height or
\* x < -1 or x > width; a point with y = height (x = width) is valid and
\* resolved to y_low = y_high = height - 1 with ly = 0, and a point with y in
\* [-1, 0) (x in [-1, 0)) is valid and resolved as the coordinate 0.
C7_ValidRange ==
    (s_pc = "returned") =>
        /\ (~bp.valid) <=>
               (\/ s_y[1] < -s_y[2]
                \/ s_y[1] > s_height * s_y[2]
                \/ s_x[1] < -s_x[2]
                \/ s_x[1] > s_width * s_x[2])
        /\ (s_y = R(s_height) /\ bp.valid) =>
               (bp.y_low = s_height - 1 /\ bp.y_high = s_height - 1
                /\ bp.ly = R(0))
        /\ (s_x = R(s_width) /\ bp.valid) =>
               (bp.x_low = s_width - 1 /\ bp.x_high = s_width - 1
                /\ bp.lx = R(0))
        /\ (s_y[1] >= -s_y[2] /\ s_y[1] < 0) =>
               (bp.valid => (bp.y_low = 0 /\ bp.ly = R(0)))
        /\ (s_x[1] >= -s_x[2] /\ s_x[1] < 0) =>
               (bp.valid => (bp.x_low = 0 /\ bp.lx = R(0)))
        /\ (s_y = R(s_height) /\ s_x[1] >= -s_x[2] /\ s_x[1] <= s_width * s_x[2])
               => bp.valid
        /\ (s_y[1] >= -s_y[2] /\ s_y[1] < 0
             /\ s_x[1] >= -s_x[2] /\ s_x[1] <= s_width * s_x[2])
               => bp.valid

\* a valid result for y = height exactly and x strictly inside [-1, 0)
C7_Witness ==
    /\ s_pc = "returned" /\ bp.valid
    /\ s_y = R(s_height)
    /\ s_x[1] < 0 /\ s_x[1] > -s_x[2]
    /\ s_height > 1

\* C8: for every plane with height >= 1 and width >= 1 and every valid
\* result, 0 <= y_low <= y_high <= height - 1 and 0 <= x_low <= x_high <=
\* width - 1 with y_high - y_low and x_high - x_low each 0 or 1, so the four
\* corners lie in the plane and backward's guard is true.
C8_CornersInPlane ==
    (s_pc = "returned" /\ bp.valid) =>
        /\ 0 <= bp.y_low /\ bp.y_low <= bp.y_high /\ bp.y_high <= s_height - 1
        /\ 0 <= bp.x_low /\ bp.x_low <= bp.x_high /\ bp.x_high <= s_width - 1
        /\ bp.y_high - bp.y_low \in {0, 1}
        /\ bp.x_high - bp.x_low \in {0, 1}
        /\ BackwardGuard(bp)

\* a valid result with two distinct rows and the last column folded
C8_Witness ==
    /\ s_pc = "returned" /\ bp.valid
    /\ bp.y_high = bp.y_low + 1
    /\ bp.x_low = s_width - 1 /\ bp.x_high = s_width - 1
    /\ s_x = R(s_width)

(***************************************************************************)
(* ProgressBarPrinter.  The clock is time.time() in ticks; an epoch is a   *)
(* float, an iteration an int.  A write to the stream is a record of what  *)
(* the format call puts into the line.                                     *)
(***************************************************************************)
\* the number of entries __call__ lets self._recent_timing keep: the code
\* keeps 100, the model keeps RecentTimingLimit
RecentTimingLimit == 3

\* the default of the argument bar_length of __init__
DefaultBarLength == 50

\* the calls made on one printer
MaxPrinterCalls == RecentTimingLimit + 2

TrainingLengths == {<<4, "iteration">>, <<2, "epoch">>}

InitPrinter ==
    /\ p_pc = "ready"
    /\ training_length \in TrainingLengths
    /\ bar_length = DefaultBarLength
    /\ recent_timing = <<>>
    /\ out = <<>>
    /\ old_entry = <<0, <<0, 1>>, 0>>
    /\ speed_t = Inf /\ speed_e = Inf
    /\ p_calls = <<>>
    /\ p_failed = FALSE
    /\ CallsIdle
    /\ ScheduleIdle
    /\ KernelIdle
    /\ SamplerIdle

\* the arguments of the previous call, the clock at it
LastCall ==
    IF p_calls = <<>> THEN <<0, <<0, 1>>, 0>> ELSE p_calls[Len(p_calls)]

\* out.write('\033[J') and out.write('\033[4A')
EraseBelow == [kind |-> "erase"]
CursorUp == [kind |-> "cursor up 4"]

\* '<name> [{}{}] {:6.2%}\n'.format(marks, '.' * (bar_length - len(marks)), rate)
BarLine(name, rate, length) ==
    LET marks == RInt(RMul(rate, R(length)))
    IN  [kind |-> name, marks |-> marks,
         dots |-> IF length - marks > 0 THEN length - marks ELSE 0,
         rate |-> rate]

\* '{} iter, {} epoch / {}\n'.format(iteration, int(epoch), training_length[0])
StatusLine(iteration, epoch, length) ==
    [kind |-> "status", iteration |-> iteration, epoch |-> RInt(epoch),
     length |-> length]

\* '{:10.5g} iters/sec. Estimated time to finish: {}.\n'
SpeedLine(speed, estimated_time) ==
    [kind |-> "speed", speed |-> speed, estimated_time |-> estimated_time]

\* "(iteration - old_t) / span" if span != 0, float('inf') otherwise
Speed(advance, span) ==
    IF span # 0 THEN Finite(RDiv(advance, R(span))) ELSE Inf

\* "(length - iteration) / speed_t": a number over inf is 0.0
EstimatedTime(remaining, speed) ==
    IF speed.inf THEN R(0) ELSE RDiv(remaining, speed.v)

\* variant: the window is never shortened
TrimRecent_Keep(recent) == recent

\* "if len(recent_timing) > 100: del recent_timing[0]"
TrimRecent(recent) ==
    IF Len(recent) > RecentTimingLimit THEN Tail(recent) ELSE recent

\* __call__(iteration, epoch) at clock now: neither argument nor the clock
\* goes back from one call to the next
PrinterCall ==
    /\ p_pc \in {"ready", "ZeroDivisionError"}
    /\ Len(p_calls) < MaxPrinterCalls
    /\ \E iteration \in {LastCall[1], LastCall[1] + 1},
          epoch \in {LastCall[2], RAdd(LastCall[2], Frac(1, 2))},
          now \in {LastCall[3], LastCall[3] + 1} :
       \E length \in {training_length[1]}, unit \in {training_length[2]} :
       \E recent \in {Append(recent_timing, <<iteration, epoch, now>>)} :
       \E rate \in {IF unit = "iteration" THEN Frac(iteration, length)
                    ELSE RDiv(epoch, R(length))} :
       \E epoch_rate \in {RSub(epoch, R(RInt(epoch)))} :
       \E head \in {<<EraseBelow,
                      BarLine("total", rate, bar_length),
                      BarLine("this epoch", epoch_rate, bar_length),
                      StatusLine(iteration, epoch, length)>>} :
       \E old \in {recent[1]} :
       \E span \in {now - old[3]} :
       \E st \in {Speed(R(iteration - old[1]), span)},
          se \in {Speed(RSub(epoch, old[2]), span)} :
       \E used \in {IF unit = "iteration" THEN st ELSE se},
          remaining \in {IF unit = "iteration" THEN R(length - iteration)
                         ELSE RSub(R(length), epoch)} :
          /\ p_calls' = Append(p_calls, <<iteration, epoch, now>>)
          /\ old_entry' = old
          /\ speed_t' = st
          /\ speed_e' = se
          /\ IF ~used.inf /\ used.v = R(0)
             THEN \* float division by zero
                  /\ p_pc' = "ZeroDivisionError"
                  /\ out' = head
                  /\ recent_timing' = recent
                  /\ p_failed' = TRUE
             ELSE /\ p_pc' = "ready"
                  /\ out' = head \o
                       <<SpeedLine(st, EstimatedTime(remaining, used)),
                         CursorUp>>
                  /\ recent_timing' = TrimRecent(recent)
                  /\ UNCHANGED p_failed
    /\ UNCHANGED <<training_length, bar_length>>
    /\ UNCHANGED <<samplerVars, kernelVars, callVars, scheduleVars>>

NextPrinter == PrinterCall

SpecPrinter == InitPrinter /\ [][NextPrinter]_vars

(***************************************************************************)
(* Properties of ProgressBarPrinter.                                       *)
(***************************************************************************)
\* the kinds of the writes of the last call
OutKinds == [k \in 1 .. Len(out) |-> out[k].kind]

\* C14: every call of the printer, also one in which iteration or epoch has
\* not advanced since the call before, completes without raising and writes
\* the four status lines and then moves the cursor back to the head of the bar.
C14_EveryCallPrints ==
    /\ p_pc # "ZeroDivisionError"
    /\ p_calls # <<>> =>
          OutKinds = <<"erase", "total", "this epoch", "status", "speed",
                       "cursor up 4">>

\* the entry of the call made k calls before the most recent one
CallBefore(k) ==
    p_calls[IF Len(p_calls) - k > 1 THEN Len(p_calls) - k ELSE 1]

\* C18: after calls that have all completed the timing window holds at most
\* RecentTimingLimit entries, the most recent calls in call order, and the
\* last call computed its speeds against the oldest entry it still held, the
\* one of RecentTimingLimit calls before (its own on the first call).
C18_TimingWindow ==
    (~p_failed /\ p_calls # <<>>) =>
        /\ Len(recent_timing) <= RecentTimingLimit
        /\ Len(recent_timing) <= Len(p_calls)
        /\ recent_timing =
             SubSeq(p_calls, Len(p_calls) - Len(recent_timing) + 1,
                    Len(p_calls))
        /\ Len(recent_timing) < RecentTimingLimit =>
             Len(recent_timing) = Len(p_calls)
        /\ old_entry = CallBefore(RecentTimingLimit)
        /\ speed_t = Speed(R(LastCall[1] - old_entry[1]),
                           LastCall[3] - old_entry[3])
        /\ speed_e = Speed(RSub(LastCall[2], old_entry[2]),
                           LastCall[3] - old_entry[3])

\* the window has been shortened more than once and the last call measured a
\* finite speed against an entry that is no longer held
C18_Witness ==
    /\ ~p_failed
    /\ Len(p_calls) > RecentTimingLimit + 1
    /\ ~speed_t.inf
    /\ old_entry # recent_timing[1]

(***************************************************************************)
(* static_schedule_func and static_forward_optimizations.  A decorated     *)
(* function goes from "undecorated" through one call after the other:      *)
(* "called" at the head of wrapped_func, "trace" once the underlying       *)
(* function has been dealt with, "returned" at its end.                    *)
(***************************************************************************)
MaxWrappedCalls == 2

\* the ways the decorator is applied: @static_schedule_func, and
\* @static_schedule_func(**dec_kwargs); bare is TRUE for the first
DecoratorArgs ==
    {[bare |-> TRUE, kwargs |-> <<>>],
     [bare |-> FALSE, kwargs |-> <<>>],
     [bare |-> FALSE, kwargs |-> [delay_call |-> TRUE]],
     [bare |-> FALSE, kwargs |-> [delay_call |-> FALSE]],
     [bare |-> FALSE, kwargs |-> [func_name |-> "name"]],
     [bare |-> FALSE, kwargs |-> [delay_call |-> TRUE, func_name |-> "name"]]}

\* the positional arguments of a call: none, the instance, the instance and
\* an array
WrappedArgs == {<<>>, <<"instance">>, <<"instance", "array">>}

InitSchedule ==
    /\ w_pc = "undecorated"
    /\ w_func = "func"
    /\ func_ret \in {"None", "value"}
    /\ delay_call = FALSE
    /\ func_name = "None"
    /\ w_args = <<>>
    /\ schedule_func \in {"None", "schedule"}
    /\ schedule = <<>>
    /\ instance \in {FreshInstance,
                     [supports_static_optimizations |-> TRUE,
                      schedule_func |-> "None"]}
    /\ w_log = <<>>
    /\ w_before = [schedule |-> <<>>, instance |-> FreshInstance,
                   schedule_func |-> "None"]
    /\ w_ncalls = 0
    /\ CallsIdle
    /\ PrinterIdle
    /\ KernelIdle
    /\ SamplerIdle

\* the body of static_schedule_func up to "def wrap"
Decorate ==
    /\ w_pc = "undecorated"
    /\ \E dec \in DecoratorArgs :
        /\ delay_call' =
             IF ~dec.bare /\ "delay_call" \in DOMAIN dec.kwargs
             THEN dec.kwargs.delay_call ELSE FALSE
        /\ func_name' =
             IF ~dec.bare /\ "func_name" \in DOMAIN dec.kwargs
             THEN dec.kwargs.func_name ELSE "None"
    /\ w_pc' = "decorated"
    /\ UNCHANGED <<w_func, func_ret, w_args, schedule_func, schedule,
                   instance, w_log, w_before, w_ncalls>>
    /\ UNCHANGED <<samplerVars, kernelVars, callVars, printerVars>>

\* trace mode is switched on or off between two calls
SetScheduleFunc ==
    /\ w_pc \in {"decorated", "returned"}
    /\ schedule_func' = IF schedule_func = "None" THEN "schedule" ELSE "None"
    /\ UNCHANGED <<w_pc, w_func, func_ret, delay_call, func_name, w_args,
                   schedule, instance, w_log, w_before, w_ncalls>>
    /\ UNCHANGED <<samplerVars, kernelVars, callVars, printerVars>>

\* wrapped_func(*args, **kwargs) is called
WrappedFuncCall ==
    /\ w_pc \in {"decorated", "returned"}
    /\ w_ncalls < MaxWrappedCalls
    /\ w_args' \in WrappedArgs
    /\ w_pc' = "called"
    /\ w_log' = <<>>
    /\ w_before' = [schedule |-> schedule, instance |-> instance,
                    schedule_func |-> schedule_func]
    /\ w_ncalls' = w_ncalls + 1
    /\ UNCHANGED <<w_func, func_ret, delay_call, func_name, schedule_func,
                   schedule, instance>>
    /\ UNCHANGED <<samplerVars, kernelVars, callVars, printerVars>>

\* variant: the underlying function is invoked whatever delay_call is
InvokesFunc_Always(delay) == TRUE

\* "if not delay_call"
InvokesFunc(delay) == ~delay

\* "if not delay_call: ret = func(*args, **kwargs); if ret is not None: raise"
WrappedFuncInvoke ==
    /\ w_pc = "called"
    /\ IF InvokesFunc(delay_call)
       THEN /\ w_log' = Append(w_log, "invoke")
            /\ w_pc' = IF func_ret # "None" THEN "RuntimeError" ELSE "trace"
       ELSE /\ w_pc' = "trace"
            /\ UNCHANGED w_log
    /\ UNCHANGED <<w_func, func_ret, delay_call, func_name, w_args,
                   schedule_func, schedule, instance, w_before, w_ncalls>>
    /\ UNCHANGED <<samplerVars, kernelVars, callVars, printerVars>>

\* schedule_function.append_function(func, args, kwargs, func_name=func_name)
append_function(sched, func, args, kwargs, name) ==
    Append(sched, [func |-> func, args |-> args, kwargs |-> kwargs,
                   func_name |-> name])

\* "If trace mode is on, add to schedule", up to the return of wrapped_func
WrappedFuncSchedule ==
    /\ w_pc = "trace"
    /\ IF schedule_func # "None"
       THEN /\ schedule' = append_function(schedule, w_func, w_args, <<>>,
                                           func_name)
            /\ w_log' = Append(w_log, "append")
            /\ IF w_args = <<>>
               THEN \* "instance = args[0]"
                    /\ w_pc' = "IndexError"
                    /\ UNCHANGED instance
               ELSE /\ instance' = [supports_static_optimizations |-> TRUE,
                                    schedule_func |-> schedule_func]
                    /\ w_pc' = "returned"
       ELSE /\ w_pc' = "returned"
            /\ UNCHANGED <<schedule, instance, w_log>>
    /\ UNCHANGED <<w_func, func_ret, delay_call, func_name, w_args,
                   schedule_func, w_before, w_ncalls>>
    /\ UNCHANGED <<samplerVars, kernelVars, callVars, printerVars>>

\* static_forward_optimizations(func, in_data, outputs) up to the head of the
\* wrapped generic_static_forward it calls
StaticForwardOptimizations ==
    /\ w_pc \in {"undecorated", "decorated", "returned"}
    /\ w_ncalls < MaxWrappedCalls
    /\ schedule_func # "None"
    /\ ~instance.supports_static_optimizations
    /\ w_func' = "generic_static_forward"
    /\ delay_call' = TRUE
    /\ func_name' = "str(func)"
    /\ w_args' = <<"instance", "in_data", "outputs">>
    /\ w_pc' = "called"
    /\ w_log' = <<>>
    /\ w_before' = [schedule |-> schedule, instance |-> instance,
                    schedule_func |-> schedule_func]
    /\ w_ncalls' = w_ncalls + 1
    /\ UNCHANGED <<func_ret, schedule_func, schedule, instance>>
    /\ UNCHANGED <<samplerVars, kernelVars, callVars, printerVars>>

NextSchedule ==
    \/ Decorate
    \/ SetScheduleFunc
    \/ WrappedFuncCall
    \/ WrappedFuncInvoke
    \/ WrappedFuncSchedule
    \/ StaticForwardOptimizations

SpecSchedule == InitSchedule /\ [][NextSchedule]_vars

(***************************************************************************)
(* Properties of static_schedule_func.                                     *)
(***************************************************************************)
\* C15: any return value of the wrapped function is ignored: when the
\* underlying function returns something other than None the call of the
\* wrapped function still completes, and the function is appended to the
\* schedule if one is being traced.
C15_ReturnValueIgnored ==
    /\ w_pc # "RuntimeError"
    /\ (w_pc = "returned" /\ func_ret # "None" /\ w_before.schedule_func # "None") =>
          /\ w_log # <<>>
          /\ w_log[Len(w_log)] = "append"

\* the last entry of the schedule is the one of the running call
LastEntryIsCall ==
    /\ schedule # <<>>
    /\ schedule[Len(schedule)] =
         [func |-> w_func, args |-> w_args, kwargs |-> <<>>,
          func_name |-> func_name]

\* C16: with delay_call a call of the wrapped function never invokes the
\* underlying function and appends exactly one entry (func, args, kwargs,
\* func_name) to the active schedule; without it the underlying function is
\* invoked exactly once and strictly before the entry is appended; and when
\* no schedule is active nothing is appended and the attributes of the
\* instance are left as they were.
C16_DelayCall ==
    /\ delay_call => \A k \in 1 .. Len(w_log) : w_log[k] # "invoke"
    /\ (w_pc \in {"returned", "IndexError"} /\ w_before.schedule_func # "None") =>
          /\ w_log = IF delay_call THEN <<"append">>
                     ELSE <<"invoke", "append">>
          /\ schedule = Append(w_before.schedule, schedule[Len(schedule)])
          /\ LastEntryIsCall
    /\ (w_pc \in {"trace", "returned"} /\ ~delay_call) => w_log[1] = "invoke"
    /\ (w_pc \in {"called", "trace", "returned", "RuntimeError"}
            /\ w_before.schedule_func = "None") =>
          /\ schedule = w_before.schedule
          /\ instance = w_before.instance
          /\ w_pc = "returned" =>
                w_log = IF delay_call THEN <<>> ELSE <<"invoke">>

\* a function wrapped with delay_call has been called on an instance while a
\* schedule was traced, and has returned
C16_Witness ==
    /\ w_pc = "returned"
    /\ delay_call
    /\ w_func = "func"
    /\ w_before.schedule_func # "None"
    /\ w_log = <<"append">>
    /\ instance.supports_static_optimizations

====
